---- MODULE Spec2Model ----
\* Verification model of historical_weather_data_2:
\*   main.py  - the collector (schema-reconciling CSV writer)
\*   merge.py - the aggregator (merge, duplicate detection, date check)
EXTENDS Integers, Sequences, FiniteSets, TLC

VARIABLES
    fs,          \* the file system: file name -> CSV file, DOMAIN fs = existing files
    pc,          \* position of the running script
    coords,      \* main.py city_coords: city index -> resolved or not
    di,          \* main.py loop: index into date_range
    ci,          \* main.py loop: index into city_coords
    fieldnames,  \* main.py fieldnames (<<>> is None)
    written,     \* history: the source rows main() appended, in order
    lookups,     \* history: the weather lookups main() made, in order
    listing,     \* the order in which the .\data directory is listed
    csv_files,   \* merge.py csv_files of the last merge_csv_files call
    overwrite,   \* merge.py __main__: the run renamed the previous output
    runs,        \* number of merge_csv_files calls started
    report,      \* merge.py: how the last merge_csv_files call ended
    merged,      \* history: the .temp file as check_duplicates read it
    previous,    \* history: the output file at the start of the run
    before,      \* history: the file system when merge_csv_files was entered
    produced,    \* history: names of the files the aggregator created
    d_in,        \* process_and_check_dates: the input file
    d_out,       \* process_and_check_dates: the output file
    warning      \* process_and_check_dates: incorrect_format_found

vars == <<fs, pc, coords, di, ci, fieldnames, written, lookups, listing, csv_files,
          overwrite, runs, report, merged, previous, before, produced,
          d_in, d_out, warning>>

collectorVars == <<coords, di, ci, fieldnames, written, lookups>>
aggregatorVars == <<listing, csv_files, overwrite, runs, report, merged, previous,
                    before, produced>>
dateVars == <<d_in, d_out, warning>>

\* ------------------------------------------------------------------ bounds

NumDates == 2
MaxRows == 3
MaxFileRows == 2
MaxRuns == 2
MaxDateRows == 2

\* ----------------------------------------------------------------- helpers

Range(s) == {s[i] : i \in 1..Len(s)}

\* a function on 1..n as the tuple of its values
Tuple(f) == f \o <<>>

IndexOf(s, x) == CHOOSE i \in 1..Len(s) : s[i] = x

\* all orderings of a finite set, as sequences without repetition
Perms(S) ==
    {p \in [1..Cardinality(S) -> S] : \A i, j \in 1..Cardinality(S) : p[i] = p[j] => i = j}

\* ------------------------------------------------------------ CSV files

CsvFile(h, r) == [header |-> h, rows |-> r]

\* csv.DictWriter.writerow: the dict's values in fieldnames order, "" (restval)
\* for a fieldname the dict lacks
DictWriterRow(fnames, d) ==
    Tuple([i \in 1..Len(fnames) |-> IF fnames[i] \in DOMAIN d THEN d[fnames[i]] ELSE ""])

\* csv.DictWriter raises ValueError for a dict key that is no fieldname
DictWriterAccepts(fnames, d) == DOMAIN d \subseteq Range(fnames)

\* csv.DictReader: one row as a dict keyed by the file's header
DictReaderRow(header, vals) ==
    [k \in {header[i] : i \in 1..(IF Len(vals) < Len(header) THEN Len(vals) ELSE Len(header))}
        |-> vals[IndexOf(header, k)]]

\* the "for field in fieldnames: if field not in row: row[field] = 'NA'" loops
FillNA(fnames, d) ==
    [k \in DOMAIN d \cup Range(fnames) |-> IF k \in DOMAIN d THEN d[k] ELSE "NA"]

\* ------------------------------------------------------------ collector

CITIES == <<"Shenzhen", "Shanghai">>

COLLECTOR_OUTPUT == <<"weather_data", ".csv">>

\* date.strftime("%Y-%m-%d") for the days of date_range, from START_DATE on
DateStr == <<"2024-07-01", "2024-07-02", "2024-07-03", "2024-07-04">>

\* the fields a day_summary response may flatten to
ApiFields == {"date", "temp"}

Temps == {"20", "25"}

\* flatten(data) key orders, "city_name" added last
KeyOrders ==
    UNION {{p \o <<"city_name">> : p \in Perms(S)} : S \in SUBSET ApiFields}

\* get_weather_data: the flattened response with city_name, for a non-empty answer
Responses(city, date_str) ==
    {[keys |-> ks,
      val |-> [k \in Range(ks) |->
                 CASE k = "city_name" -> city
                   [] k = "date" -> date_str
                   [] OTHER -> t]] : ks \in KeyOrders, t \in Temps}

\* write_csv_header
write_csv_header(fnames) == CsvFile(fnames, <<>>)

\* append_to_csv
append_to_csv(file, data, fnames) ==
    CsvFile(file.header, Append(file.rows, DictWriterRow(fnames, data)))

\* update_csv_with_new_column with lines 89-91 left out
update_csv_without_backfill(file, new_fieldnames) ==
    CsvFile(new_fieldnames,
            Tuple([i \in 1..Len(file.rows) |->
                DictWriterRow(new_fieldnames, DictReaderRow(file.header, file.rows[i]))]))

\* update_csv_with_new_column: rewrite every row under the new header
update_csv_with_new_column(file, new_fieldnames) ==
    CsvFile(new_fieldnames,
            Tuple([i \in 1..Len(file.rows) |->
                DictWriterRow(new_fieldnames,
                              FillNA(new_fieldnames,
                                     DictReaderRow(file.header, file.rows[i])))]))

\* fieldnames.extend(new_fields) replaced by an assignment
ReplaceFieldnames(fnames, order) == order

\* fieldnames.extend(new_fields), new_fields iterated in the order `order`
ExtendFieldnames(fnames, order) == fnames \o order

\* the loop stops at the first skipped lookup
NextIterStop(d, c) == <<NumDates + 1, 1>>

\* for date in date_range: for city in city_coords: the next (date, city)
NextIter(d, c) == IF c < Len(CITIES) THEN <<d, c + 1>> ELSE <<d + 1, 1>>

CollectorInit ==
    /\ fs \in {<<>>} \cup
              {[n \in {COLLECTOR_OUTPUT} |-> CsvFile(<<"stale">>, <<<<"x">>>>)]}
    /\ pc = "confirm"
    /\ coords = [c \in 1..Len(CITIES) |-> FALSE]
    /\ di = 1
    /\ ci = 1
    /\ fieldnames = <<>>
    /\ written = <<>>
    /\ lookups = <<>>
    /\ listing = <<>>
    /\ csv_files = <<>>
    /\ overwrite = FALSE
    /\ runs = 0
    /\ report = "none"
    /\ merged = CsvFile(<<>>, <<>>)
    /\ previous = CsvFile(<<>>, <<>>)
    /\ before = <<>>
    /\ produced = {}
    /\ d_in = CsvFile(<<>>, <<>>)
    /\ d_out = CsvFile(<<>>, <<>>)
    /\ warning = FALSE

\* main: confirm_overwrite and validate_date_range
Confirm ==
    /\ pc = "confirm"
    /\ \E response \in {"y", "n"} :
          pc' = IF COLLECTOR_OUTPUT \in DOMAIN fs /\ response # "y"
                THEN "cancelled" ELSE "coords"
    /\ UNCHANGED <<fs, collectorVars, aggregatorVars, dateVars>>

\* main: city_coords = {city: get_city_coordinates(city) for city in CITIES}
ResolveCities ==
    /\ pc = "coords"
    /\ coords' \in [1..Len(CITIES) -> BOOLEAN]
    /\ pc' = "loop"
    /\ UNCHANGED <<fs, di, ci, fieldnames, written, lookups, aggregatorVars, dateVars>>

\* loop body, lat or lon is None: nothing is looked up
SkipCity ==
    /\ pc = "loop"
    /\ di <= NumDates
    /\ ~coords[ci]
    /\ di' = NextIter(di, ci)[1]
    /\ ci' = NextIter(di, ci)[2]
    /\ UNCHANGED <<fs, pc, coords, fieldnames, written, lookups, aggregatorVars, dateVars>>

\* loop body, get_weather_data returned None
LookupEmpty ==
    /\ pc = "loop"
    /\ di <= NumDates
    /\ coords[ci]
    /\ lookups' = Append(lookups, [date |-> di, city |-> ci, got |-> FALSE])
    /\ di' = NextIter(di, ci)[1]
    /\ ci' = NextIter(di, ci)[2]
    /\ UNCHANGED <<fs, pc, coords, fieldnames, written, aggregatorVars, dateVars>>

\* loop body, get_weather_data returned a row: lines 149-175
LookupRow ==
    /\ pc = "loop"
    /\ di <= NumDates
    /\ coords[ci]
    /\ Len(written) < MaxRows
    /\ \E data \in Responses(CITIES[ci], DateStr[di]) :
       \E order \in Perms(DOMAIN data.val \ Range(fieldnames)) :
         LET new_fields == DOMAIN data.val \ Range(fieldnames)
             fnames == IF fieldnames = <<>> THEN data.keys
                       ELSE IF new_fields # {} THEN ExtendFieldnames(fieldnames, order)
                       ELSE fieldnames
             file == IF fieldnames = <<>> THEN write_csv_header(fnames)
                     ELSE IF new_fields # {}
                          THEN update_csv_with_new_column(fs[COLLECTOR_OUTPUT], fnames)
                     ELSE fs[COLLECTOR_OUTPUT]
             filled == FillNA(fnames, data.val)
         IN /\ fieldnames' = fnames
            /\ written' = Append(written, data)
            /\ lookups' = Append(lookups, [date |-> di, city |-> ci, got |-> TRUE])
            /\ IF DictWriterAccepts(fnames, filled)
               THEN /\ fs' = [n \in DOMAIN fs \cup {COLLECTOR_OUTPUT} |->
                                 IF n = COLLECTOR_OUTPUT
                                 THEN append_to_csv(file, filled, fnames) ELSE fs[n]]
                    /\ pc' = pc
                    /\ di' = NextIter(di, ci)[1]
                    /\ ci' = NextIter(di, ci)[2]
               ELSE /\ fs' = [n \in DOMAIN fs \cup {COLLECTOR_OUTPUT} |->
                                 IF n = COLLECTOR_OUTPUT THEN file ELSE fs[n]]
                    /\ pc' = "error"
                    /\ UNCHANGED <<di, ci>>
    /\ UNCHANGED <<coords, aggregatorVars, dateVars>>

\* the loops are exhausted: "Data collection complete."
Complete ==
    /\ pc = "loop"
    /\ di > NumDates
    /\ pc' = "done"
    /\ UNCHANGED <<fs, collectorVars, aggregatorVars, dateVars>>

CollectorNext ==
    \/ Confirm
    \/ ResolveCities
    \/ SkipCity
    \/ LookupEmpty
    \/ LookupRow
    \/ Complete

SpecCollector == CollectorInit /\ [][CollectorNext]_vars

\* ------------------------------------------------------------ aggregator

\* file names of the .\data directory, as their parts
AGG_OUTPUT == <<"weather_data_", "aggregated", ".csv">>

\* os.path.splitext
splitext(name) == <<SubSeq(name, 1, Len(name) - 1), name[Len(name)]>>

\* f"{base_name}_old{extension}"
old_file == splitext(AGG_OUTPUT)[1] \o <<"_old">> \o <<splitext(AGG_OUTPUT)[2]>>

\* output_file + ".temp"
temp_output_file == AGG_OUTPUT \o <<".temp">>

\* file_path + ".dedup.csv", file_path the .temp file
new_file_path == temp_output_file \o <<".dedup", ".csv">>

\* the per-run files of the collector, renamed by the operator
SourceNames == {<<"weather_data_", "run1", ".csv">>, <<"weather_data_", "run2", ".csv">>}

\* the names of the directory in ascending order
NameOrder ==
    <<AGG_OUTPUT, temp_output_file, new_file_path, old_file,
      <<"weather_data_", "run1", ".csv">>, <<"weather_data_", "run2", ".csv">>>>

Reverse(s) == [i \in 1..Len(s) |-> s[Len(s) + 1 - i]]

\* the orders in which the directory may be listed: glob.glob returns the names
\* in the order the file system lists them, which it does not sort
ListingOrders == {NameOrder, Reverse(NameOrder)}

\* fnmatch of a name against weather_data_*.csv
GlobMatches(name) ==
    /\ Len(name) >= 2
    /\ name[1] = "weather_data_"
    /\ name[Len(name)] = ".csv"

\* glob.glob(".\\data\\weather_data_*.csv") with the directory listed in the order `order`
glob(files, order) ==
    SelectSeq(order, LAMBDA n : n \in DOMAIN files /\ GlobMatches(n))

\* the columns of the model in sorted() order
ColumnOrder == <<"city_name", "date", "temp">>

\* sorted(list(all_fieldnames)) left out
unsorted_fieldnames(files, names) ==
    LET all == UNION {Range(files[names[i]].header) : i \in 1..Len(names)}
    IN SelectSeq(Reverse(ColumnOrder), LAMBDA c : c \in all)

\* get_all_fieldnames
get_all_fieldnames(files, names) ==
    LET all_fieldnames == UNION {Range(files[names[i]].header) : i \in 1..Len(names)}
    IN SelectSeq(ColumnOrder, LAMBDA c : c \in all_fieldnames)

\* the check of line 83 with "and" for "or"
HasEitherColumn(all_fieldnames) ==
    ~("date" \notin Range(all_fieldnames) /\ "city_name" \notin Range(all_fieldnames))

\* line 83: both required columns are among the fieldnames
HasRequiredColumns(all_fieldnames) ==
    ~("date" \notin Range(all_fieldnames) \/ "city_name" \notin Range(all_fieldnames))

\* lines 97-102 for one input file
MergedRowsOf(file, all_fieldnames) ==
    Tuple([i \in 1..Len(file.rows) |->
        DictWriterRow(all_fieldnames,
                      FillNA(all_fieldnames, DictReaderRow(file.header, file.rows[i])))])

\* lines 93-102: the rows of every input file, file after file
RECURSIVE MergedRows(_, _, _, _)
MergedRows(files, names, k, all_fieldnames) ==
    IF k = 0 THEN <<>>
    ELSE MergedRows(files, names, k - 1, all_fieldnames)
         \o MergedRowsOf(files[names[k]], all_fieldnames)

\* ---- pandas, as check_duplicates uses it

\* values read_csv takes for missing (its default na_values, those of the model)
PandasNA == {"", "NA"}

IntLiterals == {"20", "25"}

FloatLiterals == {"20.0", "25.0"}

NaN == "<NaN>"

\* repr of the float an integer or float literal parses to
FloatRepr(cell) ==
    CASE cell \in {"20", "20.0"} -> "20.0"
      [] cell \in {"25", "25.0"} -> "25.0"

Cells(file, j) == {file.rows[i][j] : i \in 1..Len(file.rows)}

\* read_csv's dtype of column j
Dtype(file, j) ==
    IF Cells(file, j) \subseteq IntLiterals THEN "int64"
    ELSE IF Cells(file, j) \subseteq (IntLiterals \cup FloatLiterals \cup PandasNA)
         THEN "float64"
    ELSE "object"

\* the value read_csv gives a cell of a column of dtype `dtype`
ParseCell(dtype, cell) ==
    IF cell \in PandasNA THEN NaN
    ELSE IF dtype = "float64" THEN FloatRepr(cell)
    ELSE cell

\* pd.read_csv: the rows of the data frame
read_csv(file) ==
    LET dtypes == Tuple([j \in 1..Len(file.header) |-> Dtype(file, j)])
    IN Tuple([i \in 1..Len(file.rows) |->
                Tuple([j \in 1..Len(file.header) |-> ParseCell(dtypes[j], file.rows[i][j])])])

\* df.duplicated(): row i equals an earlier row
duplicated(df, i) == \E k \in 1..(i - 1) : df[k] = df[i]

\* df.drop_duplicates()
RECURSIVE drop_duplicates(_, _)
drop_duplicates(df, n) ==
    IF n = 0 THEN <<>>
    ELSE IF duplicated(df, n) THEN drop_duplicates(df, n - 1)
    ELSE Append(drop_duplicates(df, n - 1), df[n])

\* df.to_csv(index=False): a missing value is written as the empty string
to_csv(header, df) ==
    CsvFile(header,
            Tuple([i \in 1..Len(df) |->
                Tuple([j \in 1..Len(header) |-> IF df[i][j] = NaN THEN "" ELSE df[i][j]])]))

\* check_duplicates: the .dedup.csv file it writes, if it writes one
check_duplicates(file) ==
    LET df == read_csv(file)
    IN IF \E i \in 1..Len(df) : duplicated(df, i)
       THEN [found |-> TRUE, file |-> to_csv(file.header, drop_duplicates(df, Len(df)))]
       ELSE [found |-> FALSE, file |-> CsvFile(<<>>, <<>>)]

\* ---- the date check

Digits == {"0", "1", "2", "3", "4", "5", "6", "7", "8", "9"}

\* the characters of the date strings of the model
Chars(date) ==
    CASE date = "" -> <<>>
      [] date = "2024-07-01" -> <<"2", "0", "2", "4", "-", "0", "7", "-", "0", "1">>
      [] date = "2024-07-02" -> <<"2", "0", "2", "4", "-", "0", "7", "-", "0", "2">>
      [] date = "2024-13-40" -> <<"2", "0", "2", "4", "-", "1", "3", "-", "4", "0">>
      [] date = "2024-7-1" -> <<"2", "0", "2", "4", "-", "7", "-", "1">>
      [] date = "abcd-ef-gh" -> <<"a", "b", "c", "d", "-", "e", "f", "-", "g", "h">>
      [] date = "2024/07/01" -> <<"2", "0", "2", "4", "/", "0", "7", "/", "0", "1">>
      [] date = "2024-07-011" -> <<"2", "0", "2", "4", "-", "0", "7", "-", "0", "1", "1">>
      [] date = "2024-07-01\n" -> <<"2", "0", "2", "4", "-", "0", "7", "-", "0", "1", "\n">>
      [] date = "NA" -> <<"N", "A">>

DateInputs ==
    {"", "2024-07-01", "2024-13-40", "2024-7-1", "abcd-ef-gh", "2024/07/01",
     "2024-07-011", "2024-07-01\n", "NA"}

\* \d{n} at position i of s
DigitsAt(s, i, n) == i + n - 1 <= Len(s) /\ \A k \in i..(i + n - 1) : s[k] \in Digits

\* a literal character at position i of s
CharAt(s, i, ch) == i <= Len(s) /\ s[i] = ch

\* "$" at position i of s: the end of the string, or just before a newline that
\* ends the string
AtEnd(s, i) == i = Len(s) + 1 \/ (i = Len(s) /\ s[i] = "\n")

\* re.match(r"^\d{4}-\d{2}-\d{2}$", date_str)
is_valid_date(date_str) ==
    LET s == Chars(date_str)
    IN /\ DigitsAt(s, 1, 4)
       /\ CharAt(s, 5, "-")
       /\ DigitsAt(s, 6, 2)
       /\ CharAt(s, 8, "-")
       /\ DigitsAt(s, 9, 2)
       /\ AtEnd(s, 11)

\* process_and_check_dates: the output file, incorrect_format_found, and whether
\* row["date"] raised KeyError (then only the header has been written)
process_and_check_dates(file) ==
    IF "date" \notin Range(file.header) /\ file.rows # <<>>
    THEN [file |-> CsvFile(file.header, <<>>),
          incorrect_format_found |-> FALSE,
          raised |-> TRUE]
    ELSE [file |-> CsvFile(file.header,
                           Tuple([i \in 1..Len(file.rows) |->
                               DictWriterRow(file.header,
                                             DictReaderRow(file.header, file.rows[i]))])),
          incorrect_format_found |->
             \E i \in 1..Len(file.rows) :
                 LET date == DictReaderRow(file.header, file.rows[i])["date"]
                 IN date # "" /\ ~is_valid_date(date),
          raised |-> FALSE]

\* ------------------------------------------------- collector: properties

\* the (date, city) pairs main() has to look up: date-major, the cities with
\* coordinates in CITIES order
ExpectedLookups ==
    SelectSeq([k \in 1..(NumDates * Len(CITIES)) |->
                  <<((k - 1) \div Len(CITIES)) + 1, ((k - 1) % Len(CITIES)) + 1>>],
              LAMBDA p : coords[p[2]])

\* first-seen-then-appended order of the keys of rows 1..n
RECURSIVE FirstSeenOrder(_)
FirstSeenOrder(n) ==
    IF n = 0 THEN <<>>
    ELSE LET h == FirstSeenOrder(n - 1)
         IN h \o SelectSeq(written[n].keys, LAMBDA k : k \notin Range(h))

\* C1: processing a row makes the header the previous header united with the
\* row's keys; a step that processes no row leaves the header alone; the file's
\* header is the header of the run
C1_HeaderGrowth ==
    [][/\ (Len(written') = Len(written) + 1 =>
              /\ Range(fieldnames') = Range(fieldnames) \cup DOMAIN written'[Len(written')].val
              /\ Range(fieldnames) \subseteq Range(fieldnames')
              /\ Len(fieldnames') = Cardinality(Range(fieldnames'))
              /\ fs'[COLLECTOR_OUTPUT].header = fieldnames')
       /\ (Len(written') = Len(written) => fieldnames' = fieldnames)]_vars

C1_Witness ==
    /\ Len(written) >= 2
    /\ Range(fieldnames) # DOMAIN written[1].val
    /\ DOMAIN written[Len(written)].val # Range(fieldnames)

\* C2: every data row of the file, read under the current header, holds the
\* source row's value in each column the source row had and "NA" in the others;
\* the file has one row per source row, in order
C2_Backfill ==
    fieldnames # <<>> =>
        /\ COLLECTOR_OUTPUT \in DOMAIN fs
        /\ fs[COLLECTOR_OUTPUT].header = fieldnames
        /\ Len(fs[COLLECTOR_OUTPUT].rows) = Len(written)
        /\ \A i \in 1..Len(written) :
              /\ Len(fs[COLLECTOR_OUTPUT].rows[i]) = Len(fieldnames)
              /\ \A j \in 1..Len(fieldnames) :
                    fs[COLLECTOR_OUTPUT].rows[i][j] =
                        IF fieldnames[j] \in DOMAIN written[i].val
                        THEN written[i].val[fieldnames[j]] ELSE "NA"

C2_Witness ==
    /\ Len(written) = 3
    /\ Len(fieldnames) = 3
    /\ DOMAIN written[1].val = {"city_name"}
    /\ DOMAIN written[2].val = {"city_name", "temp"}
    /\ fs[COLLECTOR_OUTPUT].rows[1] = <<written[1].val["city_name"], "NA", "NA">>

\* C3: the header is the keys of the rows in first-seen-then-appended order
C3_FirstSeenOrder ==
    fieldnames = FirstSeenOrder(Len(written))

\* C9: the run never aborts; the lookups made are the expected ones in
\* date-major then city order, all of them once the run is complete; a lookup
\* that returned nothing and a city without coordinates leave file and header
\* unchanged
C9_Lookups ==
    /\ pc # "error"
    /\ pc \in {"loop", "done"} =>
          /\ Len(lookups) <= Len(ExpectedLookups)
          /\ \A i \in 1..Len(lookups) :
                <<lookups[i].date, lookups[i].city>> = ExpectedLookups[i]
    /\ pc = "done" => Len(lookups) = Len(ExpectedLookups)

C9_SkipAndContinue ==
    /\ []C9_Lookups
    /\ [][/\ (Len(lookups') = Len(lookups) + 1 /\ ~lookups'[Len(lookups')].got =>
                 fs' = fs /\ fieldnames' = fieldnames /\ pc' = "loop")
          /\ (pc = "loop" /\ lookups' = lookups =>
                 fs' = fs /\ fieldnames' = fieldnames)]_vars

C9_Witness ==
    /\ pc = "done"
    /\ \E c \in 1..Len(CITIES) : ~coords[c]
    /\ \E i \in 1..Len(lookups) : ~lookups[i].got
    /\ \E i \in 2..Len(lookups) : lookups[i].got /\ ~lookups[i - 1].got

\* ------------------------------------------------- aggregator: the script

NoFile == CsvFile(<<>>, <<>>)

SourceHeaders ==
    {<<"date", "city_name">>, <<"date", "temp", "city_name">>,
     <<"temp", "city_name">>, <<"date">>}

CellValues(col) ==
    CASE col = "date" -> {"2024-07-01"}
      [] col = "city_name" -> {"Shenzhen"}
      [] col = "temp" -> {"20", "NA"}

AllCells == UNION {CellValues(c) : c \in Range(ColumnOrder)}

RowsOf(header) ==
    {r \in [1..Len(header) -> AllCells] : \A j \in 1..Len(header) : r[j] \in CellValues(header[j])}

\* the CSV files with header h the directory may hold
FilesWithHeader(h) ==
    {CsvFile(h, rows) : rows \in UNION {[1..n -> RowsOf(h)] : n \in 0..MaxFileRows}}

\* the CSV files the directory may hold when the aggregator is started
InputFiles == UNION {FilesWithHeader(h) : h \in SourceHeaders}

\* a file that may already be at the output path
PreviousOutputs == {CsvFile(<<"temp", "city_name">>, <<<<"20", "Shenzhen">>>>)}

InitialFileSystems ==
    UNION {{f \in [S -> InputFiles \cup PreviousOutputs] :
               \A n \in S : IF n = AGG_OUTPUT THEN f[n] \in PreviousOutputs
                            ELSE f[n] \in InputFiles} :
           S \in SUBSET (SourceNames \cup {AGG_OUTPUT})}

\* the file system with `name` holding `file`
WriteFile(files, name, file) ==
    [n \in DOMAIN files \cup {name} |-> IF n = name THEN file ELSE files[n]]

\* os.remove
RemoveFile(files, name) == [n \in DOMAIN files \ {name} |-> files[n]]

\* os.rename
RenameFile(files, from, to) == RemoveFile(WriteFile(files, to, files[from]), from)

AggregatorInit ==
    /\ fs \in InitialFileSystems
    /\ pc = "idle"
    /\ coords = <<>>
    /\ di = 1
    /\ ci = 1
    /\ fieldnames = <<>>
    /\ written = <<>>
    /\ lookups = <<>>
    /\ listing \in ListingOrders
    /\ csv_files = <<>>
    /\ overwrite = FALSE
    /\ runs = 0
    /\ report = "none"
    /\ merged = NoFile
    /\ previous = NoFile
    /\ before = <<>>
    /\ produced = {}
    /\ d_in = NoFile
    /\ d_out = NoFile
    /\ warning = FALSE

\* __main__, the output does not exist: line 137
StartFresh ==
    /\ pc = "idle"
    /\ runs < MaxRuns
    /\ AGG_OUTPUT \notin DOMAIN fs
    /\ runs' = runs + 1
    /\ pc' = "merge"
    /\ overwrite' = FALSE
    /\ report' = "none"
    /\ previous' = NoFile
    /\ UNCHANGED <<fs, listing, csv_files, merged, before, produced, collectorVars, dateVars>>

\* __main__, the output exists and the answer is not Y: "Abort."
StartAbort ==
    /\ pc = "idle"
    /\ runs < MaxRuns
    /\ AGG_OUTPUT \in DOMAIN fs
    /\ overwrite' = FALSE
    /\ report' = "abort"
    /\ previous' = fs[AGG_OUTPUT]
    /\ UNCHANGED <<fs, pc, listing, csv_files, runs, merged, before, produced, collectorVars, dateVars>>

\* __main__, the output exists and the answer is Y: lines 128-130
StartOverwrite ==
    /\ pc = "idle"
    /\ runs < MaxRuns
    /\ AGG_OUTPUT \in DOMAIN fs
    /\ runs' = runs + 1
    /\ fs' = RenameFile(fs, AGG_OUTPUT, old_file)
    /\ produced' = produced \cup {old_file}
    /\ pc' = "merge"
    /\ overwrite' = TRUE
    /\ report' = "none"
    /\ previous' = fs[AGG_OUTPUT]
    /\ UNCHANGED <<listing, csv_files, merged, before, collectorVars, dateVars>>

\* merge_csv_files, no file matches: lines 73-77
MergeNoFiles ==
    /\ pc = "merge"
    /\ glob(fs, listing) = <<>>
    /\ csv_files' = glob(fs, listing)
    /\ report' = "no_files"
    /\ before' = fs
    /\ pc' = IF overwrite THEN "remove_old" ELSE "idle"
    /\ UNCHANGED <<fs, listing, overwrite, runs, merged, previous, produced, collectorVars, dateVars>>

\* merge_csv_files, a required column is missing: lines 73-85
MergeMissingColumns ==
    /\ pc = "merge"
    /\ glob(fs, listing) # <<>>
    /\ ~HasRequiredColumns(get_all_fieldnames(fs, glob(fs, listing)))
    /\ csv_files' = glob(fs, listing)
    /\ report' = "missing_columns"
    /\ before' = fs
    /\ pc' = IF overwrite THEN "remove_old" ELSE "idle"
    /\ UNCHANGED <<fs, listing, overwrite, runs, merged, previous, produced, collectorVars, dateVars>>

\* merge_csv_files, lines 73-116: merge, check_duplicates,
\* process_and_check_dates, os.remove of the .temp file
MergeCsvFiles ==
    /\ pc = "merge"
    /\ LET names == glob(fs, listing)
           all_fieldnames == get_all_fieldnames(fs, names)
           temp == CsvFile(all_fieldnames,
                           MergedRows(fs, names, Len(names), all_fieldnames))
           dups == check_duplicates(temp)
           fs1 == WriteFile(fs, temp_output_file, temp)
           fs2 == IF dups.found THEN WriteFile(fs1, new_file_path, dups.file) ELSE fs1
           dates == process_and_check_dates(fs2[temp_output_file])
           fs3 == WriteFile(fs2, AGG_OUTPUT, dates.file)
       IN /\ names # <<>>
          /\ HasRequiredColumns(all_fieldnames)
          /\ csv_files' = names
          /\ merged' = temp
          /\ fs' = IF dates.raised THEN fs3 ELSE RemoveFile(fs3, temp_output_file)
          /\ produced' = produced \cup {AGG_OUTPUT}
                                  \cup (IF dups.found THEN {new_file_path} ELSE {})
          /\ warning' = dates.incorrect_format_found
          /\ report' = IF dates.raised THEN "KeyError" ELSE "merged"
          /\ pc' = IF dates.raised THEN "raised"
                   ELSE IF overwrite THEN "remove_old" ELSE "idle"
    /\ before' = fs
    /\ UNCHANGED <<listing, overwrite, runs, previous, d_in, d_out, collectorVars>>

\* __main__, line 133: os.remove(old_file)
RemoveOld ==
    /\ pc = "remove_old"
    /\ fs' = RemoveFile(fs, old_file)
    /\ pc' = "idle"
    /\ UNCHANGED <<listing, csv_files, overwrite, runs, report, merged, previous, before,
                   produced, collectorVars, dateVars>>

AggregatorNext ==
    \/ StartFresh
    \/ StartAbort
    \/ StartOverwrite
    \/ MergeNoFiles
    \/ MergeMissingColumns
    \/ MergeCsvFiles
    \/ RemoveOld

SpecAggregator == AggregatorInit /\ [][AggregatorNext]_vars

\* ----------------------------------------------- aggregator: properties

\* the input files of the last merge, as they were when it started
InputFile(k) == before[csv_files[k]]

Rank(col) == IndexOf(ColumnOrder, col)

\* the number of rows of the first k input files
RECURSIVE RowsBefore(_)
RowsBefore(k) == IF k = 0 THEN 0 ELSE RowsBefore(k - 1) + Len(InputFile(k).rows)

\* C4: after a merge the output's header is the sorted union of the input
\* headers, and its rows are the rows of the input files, file after file, each
\* with its own values under its own columns and "NA" under the others
C4_MergeCompleteness ==
    (report = "merged" /\ pc \in {"idle", "remove_old"}) =>
        LET out == fs[AGG_OUTPUT]
        IN /\ Range(out.header) =
                 UNION {Range(InputFile(k).header) : k \in 1..Len(csv_files)}
           /\ \A j \in 1..(Len(out.header) - 1) :
                 Rank(out.header[j]) < Rank(out.header[j + 1])
           /\ Len(out.rows) = RowsBefore(Len(csv_files))
           /\ \A k \in 1..Len(csv_files) :
              \A r \in 1..Len(InputFile(k).rows) :
                 /\ Len(out.rows[RowsBefore(k - 1) + r]) = Len(out.header)
                 /\ \A j \in 1..Len(out.header) :
                       out.rows[RowsBefore(k - 1) + r][j] =
                          IF out.header[j] \in Range(InputFile(k).header)
                          THEN InputFile(k).rows[r][IndexOf(InputFile(k).header, out.header[j])]
                          ELSE "NA"

C4_Witness ==
    /\ report = "merged"
    /\ pc = "idle"
    /\ Len(csv_files) = 2
    /\ InputFile(1).header = <<"date", "city_name">>
    /\ InputFile(2).header = <<"temp", "city_name">>
    /\ Len(InputFile(1).rows) = 2
    /\ fs[AGG_OUTPUT].header = <<"city_name", "date", "temp">>
    /\ fs[AGG_OUTPUT].rows =
          <<<<"Shenzhen", "2024-07-01", "NA">>, <<"Shenzhen", "2024-07-01", "NA">>,
            <<"Shenzhen", "NA", "20">>>>

\* C5: a merge_csv_files call whose input files' union header lacks date or
\* city_name reports the error and leaves every file as it was
C5_RequiredColumns ==
    [][(/\ pc = "merge"
        /\ pc' # "merge"
        /\ csv_files' # <<>>
        /\ ~({"date", "city_name"} \subseteq
               UNION {Range(fs[csv_files'[k]].header) : k \in 1..Len(csv_files')}))
       => (report' = "missing_columns" /\ fs' = fs)]_vars

C5_Witness ==
    /\ report = "missing_columns"
    /\ pc = "idle"
    /\ Len(csv_files) = 2
    /\ \A k \in 1..Len(csv_files) : InputFile(k).header = <<"date">>
    /\ InputFile(1).rows # <<>>
    /\ AGG_OUTPUT \notin DOMAIN fs
    /\ temp_output_file \notin DOMAIN fs
    /\ new_file_path \notin DOMAIN fs

\* C6: after an overwrite run whose merge produced no new output, the previous
\* output still exists, under the _old name or the original one
C6_PreviousOutputKept ==
    (pc = "idle" /\ overwrite /\ report \in {"no_files", "missing_columns"}) =>
        \/ old_file \in DOMAIN fs /\ fs[old_file] = previous
        \/ AGG_OUTPUT \in DOMAIN fs /\ fs[AGG_OUTPUT] = previous

\* C7: a row of the merged file is a duplicate exactly when it equals an
\* earlier row; with a duplicate the .dedup.csv file holds the first occurrence
\* of each distinct row with the merged file's values; without one no file is
\* written
C7_Dedup ==
    report = "merged" =>
        LET IsDup(i) == \E k \in 1..(i - 1) : merged.rows[k] = merged.rows[i]
            kept == SelectSeq([i \in 1..Len(merged.rows) |-> i], LAMBDA i : ~IsDup(i))
        IN IF \E i \in 1..Len(merged.rows) : IsDup(i)
           THEN /\ new_file_path \in DOMAIN fs
                /\ fs[new_file_path] =
                      CsvFile(merged.header, [k \in 1..Len(kept) |-> merged.rows[kept[k]]])
           ELSE /\ new_file_path \in DOMAIN fs <=> new_file_path \in DOMAIN before
                /\ new_file_path \in DOMAIN fs => fs[new_file_path] = before[new_file_path]

\* C10: no file merge_csv_files discovers was produced by the aggregator
C10_NoOwnFiles ==
    \A k \in 1..Len(csv_files) :
        /\ csv_files[k] \notin produced
        /\ csv_files[k] \notin {AGG_OUTPUT, old_file, new_file_path}

\* ------------------------------------------------------- the date check

DateFiles ==
    {CsvFile(<<"date", "city_name">>, rows) :
        rows \in UNION {[1..n -> {<<d, "Shenzhen">> : d \in DateInputs}] :
                           n \in 0..MaxDateRows}}

DatesInit ==
    /\ d_in \in DateFiles
    /\ pc = "check"
    /\ fs = <<>>
    /\ coords = <<>>
    /\ di = 1
    /\ ci = 1
    /\ fieldnames = <<>>
    /\ written = <<>>
    /\ lookups = <<>>
    /\ listing = <<>>
    /\ csv_files = <<>>
    /\ overwrite = FALSE
    /\ runs = 0
    /\ report = "none"
    /\ merged = NoFile
    /\ previous = NoFile
    /\ before = <<>>
    /\ produced = {}
    /\ d_out = NoFile
    /\ warning = FALSE

\* process_and_check_dates(input_file, output_file)
CheckDates ==
    /\ pc = "check"
    /\ d_out' = process_and_check_dates(d_in).file
    /\ warning' = process_and_check_dates(d_in).incorrect_format_found
    /\ pc' = "checked"
    /\ UNCHANGED <<fs, d_in, collectorVars, aggregatorVars>>

DatesNext == CheckDates

SpecDates == DatesInit /\ [][DatesNext]_vars

\* four digits, dash, two digits, dash, two digits
IsYearMonthDay(s) ==
    /\ Len(s) = 10
    /\ \A i \in {1, 2, 3, 4, 6, 7, 9, 10} : s[i] \in Digits
    /\ s[5] = "-"
    /\ s[8] = "-"

\* C8: every row is written unchanged and in order, and the warning is raised
\* exactly when a row has a non-empty date that is not of the form YYYY-MM-DD
C8_DateCheck ==
    pc = "checked" =>
        /\ d_out = d_in
        /\ warning <=>
              \E i \in 1..Len(d_in.rows) :
                  /\ d_in.rows[i][1] # ""
                  /\ ~IsYearMonthDay(Chars(d_in.rows[i][1]))

====
